---- MODULE Spec2Model ----
(***************************************************************************)
(* Minesweeper engine: Board (game/models/board.rs), Cell                  *)
(* (game/models/cell.rs), GameStatus / GameDifficulty                      *)
(* (game/models/game.rs) and GameState (game/state.rs).                    *)
(*                                                                         *)
(* A position is the pair <<x, y>> with x < width and y < height.  The     *)
(* random number generator of place_mines is the only source of            *)
(* nondeterminism inside the engine: a command is the set of the outcomes  *)
(* it can have, one per set of mines the placement can end up with.        *)
(***************************************************************************)
EXTENDS Integers, Sequences, FiniteSets, TLC

\* Largest number of cells the player holds flagged at the same time.
MaxFlags == 2
\* Largest reading of the monotonic clock, in seconds since the start instant.
MaxTime == 1

\* Largest width and height of the boards of the runs over the board geometry.
MaxSide == 3

\* GameDifficulty values handed to GameState::new and change_difficulty.
Difficulties ==
    { [board_size |-> <<2, 2>>, mines_count |-> 1],
      [board_size |-> <<2, 2>>, mines_count |-> 2],
      [board_size |-> <<4, 1>>, mines_count |-> 1] }

\* GameDifficulty values of the runs that leave the clock out.
PlayDifficulties ==
    { [board_size |-> <<3, 2>>, mines_count |-> 1] }

\* GameDifficulty values and clock readings of the runs around the 999 limit
\* of the displayed time.
ClockDifficulties ==
    { [board_size |-> <<2, 2>>, mines_count |-> 1] }

ClockReadings == { 1, 998, 999, 1000 }

\* GameDifficulty values of the runs that hand change_difficulty invalid ones
\* too: no mine, and as many mines as cells.
ErrDifficulties ==
    { [board_size |-> <<2, 2>>, mines_count |-> 1],
      [board_size |-> <<2, 2>>, mines_count |-> 0],
      [board_size |-> <<2, 2>>, mines_count |-> 4] }

\* GameDifficulty values of the runs over the board geometry: one mine on every
\* board of at least two cells up to MaxSide columns and rows.
GeomDifficulties ==
    { [board_size |-> <<w, h>>, mines_count |-> 1] :
         <<w, h>> \in { s \in (1..MaxSide) \X (1..MaxSide) : s[1] * s[2] >= 2 } }

NoPos == <<>>

Positions(size) == { <<x, y>> : x \in 0..(size[1] - 1), y \in 0..(size[2] - 1) }

\* The positions a caller may pass: those of the board and the first column and
\* row beyond it.
InputPositions(size) == { <<x, y>> : x \in 0..size[1], y \in 0..size[2] }

-----------------------------------------------------------------------------
(* game/models/cell.rs *)

\* add_one without the early return for Mine.
add_one_counts_mines(c) ==
    CASE c = "Eight" -> "Eight"
      [] c \in {"Mine", "Empty"} -> "One"
      [] c = "One"   -> "Two"
      [] c = "Two"   -> "Three"
      [] c = "Three" -> "Four"
      [] c = "Four"  -> "Five"
      [] c = "Five"  -> "Six"
      [] c = "Six"   -> "Seven"
      [] c = "Seven" -> "Eight"

add_one(c) ==
    CASE c = "Mine"  -> "Mine"
      [] c = "Eight" -> "Eight"
      [] c = "Empty" -> "One"
      [] c = "One"   -> "Two"
      [] c = "Two"   -> "Three"
      [] c = "Three" -> "Four"
      [] c = "Four"  -> "Five"
      [] c = "Five"  -> "Six"
      [] c = "Six"   -> "Seven"
      [] c = "Seven" -> "Eight"

as_number(c) ==
    CASE c = "Mine"  -> 99
      [] c = "Empty" -> 0
      [] c = "One"   -> 1
      [] c = "Two"   -> 2
      [] c = "Three" -> 3
      [] c = "Four"  -> 4
      [] c = "Five"  -> 5
      [] c = "Six"   -> 6
      [] c = "Seven" -> 7
      [] c = "Eight" -> 8

\* The two glyphs of the Display impls, named by their code points.
BombGlyph == "U+1F4A3"
FlagGlyph == "U+1F6A9"

\* Display for CellContent writing what the Debug impl writes.
Content_to_string_debug(c) ==
    CASE c = "Mine"  -> "Mine"
      [] c = "Empty" -> "Blank"
      [] OTHER       -> ToString(as_number(c))

\* Display for CellContent.
Content_to_string(c) ==
    CASE c = "Mine"  -> BombGlyph
      [] c = "Empty" -> " "
      [] OTHER       -> ToString(as_number(c))

\* to_index with columns and rows exchanged.
to_index_row_major(pos, board_size) == (pos[2] * board_size) + pos[1]
to_index(pos, board_size) == (pos[1] * board_size) + pos[2]

from_index(index, board_size) == << index \div board_size, index % board_size >>

DefaultCell == [content |-> "Empty", state |-> "Hidden"]

\* is_hidden holding of every cell without a flag.
is_hidden_or_revealed(cell) == cell.state # "Flagged"
is_hidden(cell) == cell.state = "Hidden"
is_revealed(cell) == cell.state = "Revealed"
is_flagged(cell) == cell.state = "Flagged"
is_mine(cell) == cell.content = "Mine"
\* is_empty taking every cell that is not a mine for an empty one.
is_empty_or_number(cell) == cell.content # "Mine"
is_empty(cell) == cell.content = "Empty"

\* Display for Cell.
Cell_to_string(cell) ==
    CASE cell.state = "Hidden"   -> ""
      [] cell.state = "Revealed" -> Content_to_string(cell.content)
      [] cell.state = "Flagged"  -> FlagGlyph

Cell_reveal(cell) == [cell EXCEPT !.state = "Revealed"]

Cell_flag(cell) ==
    IF is_hidden(cell)
    THEN [cell |-> [cell EXCEPT !.state = "Flagged"], ok |-> TRUE]
    ELSE [cell |-> cell, ok |-> FALSE]

Cell_unflag(cell) ==
    IF is_flagged(cell)
    THEN [cell |-> [cell EXCEPT !.state = "Hidden"], ok |-> TRUE]
    ELSE [cell |-> cell, ok |-> FALSE]

-----------------------------------------------------------------------------
(* game/models/game.rs *)

is_over(s) == s \in {"Won", "Lost"}
is_won(s) == s = "Won"
\* is_lost matching the variant of is_won.
is_lost_matching_won(s) == s = "Won"
is_lost(s) == s = "Lost"
is_in_progress(s) == s = "InProgress"
is_new(s) == s = "New"

-----------------------------------------------------------------------------
(* game/models/board.rs *)

Continue == [kind |-> "Continue", pos |-> NoPos]
CantReveal == [kind |-> "CantReveal", pos |-> NoPos]
GameOver(p) == [kind |-> "GameOver", pos |-> p]
InvalidCellPosition(p) == [kind |-> "InvalidCellPosition", pos |-> p]

validate_difficulty(d) ==
    /\ d.board_size[1] # 0
    /\ d.board_size[2] # 0
    /\ ~ (d.mines_count >= d.board_size[1] * d.board_size[2] \/ d.mines_count = 0)

validate_position(b, pos) == ~ (pos[1] >= b.size[1] \/ pos[2] >= b.size[2])

OFFSETS ==
    << <<-1, -1>>, <<-1, 0>>, <<-1, 1>>, <<0, -1>>,
       <<0, 1>>, <<1, -1>>, <<1, 0>>, <<1, 1>> >>

\* adjacent_positions wrapping around the edges of the board.
adjacent_positions_wrapping(b, pos) ==
    [i \in 1..8 |-> << (pos[1] + OFFSETS[i][1]) % b.size[1],
                       (pos[2] + OFFSETS[i][2]) % b.size[2] >>]

adjacent_positions(b, pos) ==
    LET cand == [i \in 1..8 |-> <<pos[1] + OFFSETS[i][1], pos[2] + OFFSETS[i][2]>>]
        ok(q) == q[1] >= 0 /\ q[2] >= 0 /\ q[1] < b.size[1] /\ q[2] < b.size[2]
    IN  SelectSeq(cand, ok)

\* The sampling loop of place_mines draws positions until mines_count distinct
\* ones that are neither the excluded cell nor flagged have been made mines: the
\* set of mine sets it can end with.  It is empty when fewer than mines_count
\* positions are eligible, and the loop then never ends.
place_mines(d, excluded, flagged) ==
    { m \in SUBSET (Positions(d.board_size) \ ({excluded} \cup flagged)) :
         Cardinality(m) = d.mines_count }

set_mines(b, mines) ==
    [b EXCEPT !.cells = [p \in DOMAIN b.cells |->
                            IF p \in mines THEN [b.cells[p] EXCEPT !.content = "Mine"]
                                           ELSE b.cells[p]],
              !.mine_positions = mines]

RECURSIVE add_one_each(_, _)
add_one_each(cells, adj) ==
    IF adj = <<>> THEN cells
    ELSE add_one_each([cells EXCEPT ![Head(adj)].content = add_one(@)], Tail(adj))

RECURSIVE calculate_adjacent_mines_loop(_, _)
calculate_adjacent_mines_loop(b, todo) ==
    IF todo = {} THEN b
    ELSE LET mine == CHOOSE m \in todo : TRUE
         IN  calculate_adjacent_mines_loop(
                 [b EXCEPT !.cells = add_one_each(b.cells, adjacent_positions(b, mine))],
                 todo \ {mine})

\* calculate_adjacent_mines leaving every count at 0.
calculate_adjacent_mines_skipped(b) == b

calculate_adjacent_mines(b) == calculate_adjacent_mines_loop(b, b.mine_positions)

EmptyBoard(d) ==
    [cells |-> [p \in Positions(d.board_size) |-> DefaultCell],
     size |-> d.board_size,
     mine_positions |-> {},
     revealed_count |-> 0,
     flagged_count |-> 0]

\* Board::new for a valid difficulty: the boards it can return, one per outcome
\* of the random placement.
Board_new(d, revealed_cell, flagged) ==
    { calculate_adjacent_mines(set_mines(EmptyBoard(d), m)) :
         m \in place_mines(d, revealed_cell, flagged) }

\* Board::flag without the update of flagged_count.
Board_flag_uncounted(b, pos) ==
    IF ~ validate_position(b, pos) THEN [board |-> b, ok |-> FALSE, err |-> TRUE]
    ELSE LET c == Cell_flag(b.cells[pos])
         IN  IF c.ok
             THEN [board |-> [b EXCEPT !.cells[pos] = c.cell],
                   ok |-> TRUE, err |-> FALSE]
             ELSE [board |-> b, ok |-> FALSE, err |-> FALSE]

\* Board::flag refusing a flag once as many cells are flagged as there are mines.
Board_flag_clamped(b, pos) ==
    IF ~ validate_position(b, pos) THEN [board |-> b, ok |-> FALSE, err |-> TRUE]
    ELSE IF b.flagged_count >= Cardinality(b.mine_positions)
    THEN [board |-> b, ok |-> FALSE, err |-> FALSE]
    ELSE LET c == Cell_flag(b.cells[pos])
         IN  IF c.ok
             THEN [board |-> [b EXCEPT !.cells[pos] = c.cell,
                                       !.flagged_count = @ + 1],
                   ok |-> TRUE, err |-> FALSE]
             ELSE [board |-> b, ok |-> FALSE, err |-> FALSE]

Board_flag(b, pos) ==
    IF ~ validate_position(b, pos) THEN [board |-> b, ok |-> FALSE, err |-> TRUE]
    ELSE LET c == Cell_flag(b.cells[pos])
         IN  IF c.ok
             THEN [board |-> [b EXCEPT !.cells[pos] = c.cell,
                                       !.flagged_count = @ + 1],
                   ok |-> TRUE, err |-> FALSE]
             ELSE [board |-> b, ok |-> FALSE, err |-> FALSE]

\* Board::unflag without the update of flagged_count.
Board_unflag_keeps_count(b, pos) ==
    IF ~ validate_position(b, pos) THEN [board |-> b, ok |-> FALSE, err |-> TRUE]
    ELSE LET c == Cell_unflag(b.cells[pos])
         IN  IF c.ok
             THEN [board |-> [b EXCEPT !.cells[pos] = c.cell],
                   ok |-> TRUE, err |-> FALSE]
             ELSE [board |-> b, ok |-> FALSE, err |-> FALSE]

Board_unflag(b, pos) ==
    IF ~ validate_position(b, pos) THEN [board |-> b, ok |-> FALSE, err |-> TRUE]
    ELSE LET c == Cell_unflag(b.cells[pos])
         IN  IF c.ok
             THEN [board |-> [b EXCEPT !.cells[pos] = c.cell,
                                       !.flagged_count = @ - 1],
                   ok |-> TRUE, err |-> FALSE]
             ELSE [board |-> b, ok |-> FALSE, err |-> FALSE]

\* Board::reveal counting the cell before it looks for the mine.
Board_reveal_counting_mines(b, pos) ==
    IF ~ validate_position(b, pos) THEN [board |-> b, res |-> InvalidCellPosition(pos)]
    ELSE IF is_revealed(b.cells[pos]) \/ is_flagged(b.cells[pos])
    THEN [board |-> b, res |-> CantReveal]
    ELSE LET b1 == [b EXCEPT !.cells[pos] = Cell_reveal(@), !.revealed_count = @ + 1]
         IN  IF is_mine(b1.cells[pos])
             THEN [board |-> b1, res |-> GameOver(pos)]
             ELSE [board |-> b1, res |-> Continue]

Board_reveal(b, pos) ==
    IF ~ validate_position(b, pos) THEN [board |-> b, res |-> InvalidCellPosition(pos)]
    ELSE IF is_revealed(b.cells[pos]) \/ is_flagged(b.cells[pos])
    THEN [board |-> b, res |-> CantReveal]
    ELSE LET b1 == [b EXCEPT !.cells[pos] = Cell_reveal(@)]
         IN  IF is_mine(b1.cells[pos])
             THEN [board |-> b1, res |-> GameOver(pos)]
             ELSE [board |-> [b1 EXCEPT !.revealed_count = @ + 1], res |-> Continue]

\* reveal_mines without the skip of flagged mines.
reveal_mines_flagged_too(b) ==
    [b EXCEPT !.cells = [p \in DOMAIN b.cells |->
        IF p \in b.mine_positions THEN Cell_reveal(b.cells[p]) ELSE b.cells[p]]]

reveal_mines(b) ==
    [b EXCEPT !.cells = [p \in DOMAIN b.cells |->
        IF p \in b.mine_positions /\ ~ is_flagged(b.cells[p])
        THEN Cell_reveal(b.cells[p])
        ELSE b.cells[p]]]

flag_mines(b) ==
    [b EXCEPT !.cells = [p \in DOMAIN b.cells |->
        IF p \in b.mine_positions THEN Cell_flag(b.cells[p]).cell ELSE b.cells[p]]]

-----------------------------------------------------------------------------
(* game/state.rs *)

VARIABLES
    board,                  \* GameState.board
    difficulty,             \* GameState.difficulty
    status,                 \* GameState.status
    start_time,             \* GameState.start_time: "None" or "Some"
    elapsed_seconds,        \* GameState.elapsed_seconds
    revealed_cells,         \* GameState.revealed_cells
    flagged_cells,          \* GameState.flagged_cells
    custom_flags_remaining, \* GameState.custom_flags_remaining
    pc                      \* "idle" between commands, "place_mines" inside its loop

vars == <<board, difficulty, status, start_time, elapsed_seconds, revealed_cells,
          flagged_cells, custom_flags_remaining, pc>>

\* The GameState struct as one value.
GS ==
    [board |-> board, difficulty |-> difficulty, status |-> status,
     start_time |-> start_time, elapsed_seconds |-> elapsed_seconds,
     revealed_cells |-> revealed_cells, flagged_cells |-> flagged_cells,
     custom_flags_remaining |-> custom_flags_remaining]

SetGS(gs) ==
    /\ board' = gs.board
    /\ difficulty' = gs.difficulty
    /\ status' = gs.status
    /\ start_time' = gs.start_time
    /\ elapsed_seconds' = gs.elapsed_seconds
    /\ revealed_cells' = gs.revealed_cells
    /\ flagged_cells' = gs.flagged_cells
    /\ custom_flags_remaining' = gs.custom_flags_remaining

Out(gs, res) == [gs |-> gs, res |-> res]
Ok == [kind |-> "Ok", pos |-> NoPos]
InvalidDifficulty == [kind |-> "InvalidDifficulty", pos |-> NoPos]
Panic == [kind |-> "Panic", pos |-> NoPos]
Flagged(ok) == [kind |-> IF ok THEN "true" ELSE "false", pos |-> NoPos]
IsErr(r) == r.kind \in {"InvalidCellPosition", "InvalidDifficulty", "Panic"}

(* Every command below is the set of its outcomes [gs, res]: the GameState it  *)
(* leaves and the value it returns, one outcome per result of the random mine  *)
(* placement.  The empty set is a call that never returns.                     *)

GameState_new(d) ==
    IF ~ validate_difficulty(d) THEN {}
    ELSE { [board |-> b, difficulty |-> d, status |-> "New",
            start_time |-> "None", elapsed_seconds |-> 0,
            revealed_cells |-> {}, flagged_cells |-> {},
            custom_flags_remaining |-> 0] : b \in Board_new(d, <<0, 0>>, {}) }

\* restart leaving the display counter of the flags as it is.
restart_keeps_counter(gs) ==
    IF ~ validate_difficulty(gs.difficulty) THEN { Out(gs, InvalidDifficulty) }
    ELSE { Out([gs EXCEPT !.board = b,
                          !.status = "New",
                          !.start_time = "None",
                          !.elapsed_seconds = 0,
                          !.revealed_cells = {},
                          !.flagged_cells = {}], Ok) :
              b \in Board_new(gs.difficulty, <<0, 0>>, {}) }

restart(gs) ==
    IF ~ validate_difficulty(gs.difficulty) THEN { Out(gs, InvalidDifficulty) }
    ELSE { Out([gs EXCEPT !.board = b,
                          !.status = "New",
                          !.start_time = "None",
                          !.elapsed_seconds = 0,
                          !.revealed_cells = {},
                          !.flagged_cells = {},
                          !.custom_flags_remaining = 0], Ok) :
              b \in Board_new(gs.difficulty, <<0, 0>>, {}) }

\* check_win_condition without the call of flag_mines.
check_win_condition_unflagged(gs) ==
    IF /\ gs.board.revealed_count
             = (gs.difficulty.board_size[1] * gs.difficulty.board_size[2])
                  - gs.difficulty.mines_count
       /\ ~ is_lost(gs.status)
    THEN [gs EXCEPT !.status = "Won",
                    !.flagged_cells = @ \cup gs.board.mine_positions]
    ELSE gs

check_win_condition(gs) ==
    IF /\ gs.board.revealed_count
             = (gs.difficulty.board_size[1] * gs.difficulty.board_size[2])
                  - gs.difficulty.mines_count
       /\ ~ is_lost(gs.status)
    THEN [gs EXCEPT !.status = "Won",
                    !.board = flag_mines(gs.board),
                    !.flagged_cells = @ \cup gs.board.mine_positions]
    ELSE gs

\* start_game building the board the way new and restart do, around (0, 0).
start_game_at_origin(gs, revealed_cell) ==
    LET gs1 == [gs EXCEPT !.start_time = "Some"]
    IN  IF ~ validate_difficulty(gs1.difficulty) THEN { Out(gs1, Panic) }
        ELSE { Out([gs1 EXCEPT !.board = b, !.status = "InProgress"], Ok) :
                  b \in Board_new(gs1.difficulty, <<0, 0>>, gs1.flagged_cells) }

\* The states start_game can leave; the Panic outcome is the failed expect.
start_game(gs, revealed_cell) ==
    LET gs1 == [gs EXCEPT !.start_time = "Some"]
    IN  IF ~ validate_difficulty(gs1.difficulty) THEN { Out(gs1, Panic) }
        ELSE { Out([gs1 EXCEPT !.board = b, !.status = "InProgress"], Ok) :
                  b \in Board_new(gs1.difficulty, revealed_cell, gs1.flagged_cells) }

RECURSIVE enqueue_adjacent(_, _, _, _)
enqueue_adjacent(b, adj, to_reveal, visited) ==
    IF adj = <<>> THEN [to_reveal |-> to_reveal, visited |-> visited]
    ELSE LET adj_pos == Head(adj)
         IN  IF adj_pos \in visited
             THEN enqueue_adjacent(b, Tail(adj), to_reveal, visited)
             ELSE IF ~ is_revealed(b.cells[adj_pos]) /\ ~ is_flagged(b.cells[adj_pos])
             THEN enqueue_adjacent(b, Tail(adj), Append(to_reveal, adj_pos),
                                   visited \cup {adj_pos})
             ELSE enqueue_adjacent(b, Tail(adj), to_reveal, visited \cup {adj_pos})

RECURSIVE reveal_area_loop(_, _, _)
reveal_area_loop(gs, to_reveal, visited) ==
    IF to_reveal = <<>> THEN Out(gs, Continue)
    ELSE LET pos == Head(to_reveal)
             r == Board_reveal(gs.board, pos)
         IN  CASE IsErr(r.res) -> Out(gs, r.res)
               [] r.res.kind = "Continue" ->
                    LET gs1 == [gs EXCEPT !.board = r.board,
                                          !.revealed_cells = @ \cup {pos}]
                    IN  IF is_empty(gs1.board.cells[pos])
                        THEN LET q == enqueue_adjacent(gs1.board,
                                          adjacent_positions(gs1.board, pos),
                                          Tail(to_reveal), visited)
                             IN  reveal_area_loop(gs1, q.to_reveal, q.visited)
                        ELSE reveal_area_loop(gs1, Tail(to_reveal), visited)
               [] r.res.kind = "GameOver" ->
                    LET b1 == reveal_mines(r.board)
                    IN  Out([gs EXCEPT !.board = b1,
                                       !.status = "Lost",
                                       !.revealed_cells =
                                           (@ \cup {pos}) \cup b1.mine_positions],
                            GameOver(r.res.pos))
               [] r.res.kind = "CantReveal" -> Out(gs, CantReveal)

\* reveal_area assigning the mine positions to revealed_cells on a loss where
\* the code extends the set with them.
reveal_area_assigning_mines(gs, start_pos) ==
    LET r == reveal_area_loop(gs, <<start_pos>>, {start_pos})
    IN  IF r.res.kind = "GameOver"
        THEN Out([r.gs EXCEPT !.revealed_cells = r.gs.board.mine_positions], r.res)
        ELSE r

\* reveal_area leaving the status alone when it reveals a mine.
reveal_area_keeping_status(gs, start_pos) ==
    LET r == reveal_area_loop(gs, <<start_pos>>, {start_pos})
    IN  IF r.res.kind = "GameOver"
        THEN Out([r.gs EXCEPT !.status = gs.status], r.res)
        ELSE r

reveal_area(gs, start_pos) == reveal_area_loop(gs, <<start_pos>>, {start_pos})

\* The positions the loop of reveal_area pops from to_reveal, in order.
RECURSIVE reveal_area_dequeued(_, _, _)
reveal_area_dequeued(gs, to_reveal, visited) ==
    IF to_reveal = <<>> THEN <<>>
    ELSE LET pos == Head(to_reveal)
             r == Board_reveal(gs.board, pos)
         IN  IF r.res.kind = "Continue"
             THEN LET gs1 == [gs EXCEPT !.board = r.board]
                  IN  IF is_empty(gs1.board.cells[pos])
                      THEN LET q == enqueue_adjacent(gs1.board,
                                        adjacent_positions(gs1.board, pos),
                                        Tail(to_reveal), visited)
                           IN  <<pos>> \o reveal_area_dequeued(gs1, q.to_reveal, q.visited)
                      ELSE <<pos>> \o reveal_area_dequeued(gs1, Tail(to_reveal), visited)
             ELSE <<pos>>

\* reveal_cell after start_game (if any) has run.
reveal_cell_started(gs, pos) ==
    LET ra == reveal_area(gs, pos)
    IN  CASE IsErr(ra.res) -> ra
          [] ra.res.kind = "Continue" ->
               Out(IF ~ is_lost(ra.gs.status) THEN check_win_condition(ra.gs) ELSE ra.gs,
                   Continue)
          [] ra.res.kind = "GameOver" -> ra
          [] ra.res.kind = "CantReveal" -> ra

\* reveal_cell starting the game before it looks at the cell.
reveal_cell_starts_first(gs, pos) ==
    IF ~ validate_position(gs.board, pos) THEN { Out(gs, InvalidCellPosition(pos)) }
    ELSE IF is_new(gs.status)
    THEN { IF s.res = Panic THEN s ELSE reveal_cell_started(s.gs, pos) :
              s \in start_game(gs, pos) }
    ELSE IF is_revealed(gs.board.cells[pos]) \/ is_flagged(gs.board.cells[pos])
    THEN { Out(gs, CantReveal) }
    ELSE { reveal_cell_started(gs, pos) }

reveal_cell(gs, pos) ==
    IF ~ validate_position(gs.board, pos) THEN { Out(gs, InvalidCellPosition(pos)) }
    ELSE IF is_revealed(gs.board.cells[pos]) \/ is_flagged(gs.board.cells[pos])
    THEN { Out(gs, CantReveal) }
    ELSE IF is_new(gs.status)
    THEN { IF s.res = Panic THEN s ELSE reveal_cell_started(s.gs, pos) :
              s \in start_game(gs, pos) }
    ELSE { reveal_cell_started(gs, pos) }

toggle_flag(gs, pos) ==
    IF is_over(gs.status) THEN Out(gs, Flagged(FALSE))
    ELSE IF ~ validate_position(gs.board, pos) THEN Out(gs, InvalidCellPosition(pos))
    ELSE IF is_flagged(gs.board.cells[pos])
    THEN LET u == Board_unflag(gs.board, pos)
         IN  Out([gs EXCEPT !.flagged_cells = @ \ {pos}, !.board = u.board],
                 Flagged(u.ok))
    ELSE IF is_hidden(gs.board.cells[pos])
    THEN LET f == Board_flag(gs.board, pos)
         IN  Out([gs EXCEPT !.flagged_cells = @ \cup {pos}, !.board = f.board],
                 Flagged(f.ok))
    ELSE Out(gs, Flagged(FALSE))

flags_remaining(gs) ==
    IF gs.custom_flags_remaining < gs.difficulty.mines_count
    THEN gs.custom_flags_remaining
    ELSE gs.difficulty.mines_count - gs.board.flagged_count

elapsed_seconds_shown(gs) ==
    IF gs.elapsed_seconds < 999 THEN gs.elapsed_seconds ELSE 999

\* tick advancing the display counter without the test against mines_count.
tick_unsaturated(gs, reading) ==
    LET gs1 == IF is_in_progress(gs.status) /\ gs.start_time = "Some"
               THEN [gs EXCEPT !.elapsed_seconds = reading] ELSE gs
    IN  [gs1 EXCEPT !.custom_flags_remaining = @ + 1]

\* tick draining revealed_cells as the repaint that follows a command does.
tick_draining(gs, reading) ==
    LET gs1 == IF is_in_progress(gs.status) /\ gs.start_time = "Some"
               THEN [gs EXCEPT !.elapsed_seconds = reading] ELSE gs
        gs2 == [gs1 EXCEPT !.revealed_cells = {}]
    IN  IF gs2.custom_flags_remaining < gs2.difficulty.mines_count
        THEN [gs2 EXCEPT !.custom_flags_remaining = @ + 1]
        ELSE gs2

\* tick reading the clock whatever the status is.
tick_any_status(gs, reading) ==
    LET gs1 == IF gs.start_time = "Some"
               THEN [gs EXCEPT !.elapsed_seconds = reading] ELSE gs
    IN  IF gs1.custom_flags_remaining < gs1.difficulty.mines_count
        THEN [gs1 EXCEPT !.custom_flags_remaining = @ + 1]
        ELSE gs1

\* reading is what start_time.elapsed().as_secs() returns at this call.
tick(gs, reading) ==
    LET gs1 == IF is_in_progress(gs.status) /\ gs.start_time = "Some"
               THEN [gs EXCEPT !.elapsed_seconds = reading] ELSE gs
    IN  IF gs1.custom_flags_remaining < gs1.difficulty.mines_count
        THEN [gs1 EXCEPT !.custom_flags_remaining = @ + 1]
        ELSE gs1

change_difficulty(gs, d) ==
    restart(IF gs.difficulty # d THEN [gs EXCEPT !.difficulty = d] ELSE gs)

Text(str) == [kind |-> "Text", pos |-> NoPos, text |-> str]

\* display_cell reads only: its result.
display_cell(gs, pos) ==
    IF ~ validate_position(gs.board, pos) THEN InvalidCellPosition(pos)
    ELSE Text(Cell_to_string(gs.board.cells[pos]))

clear_revealed_cells(gs) == [gs EXCEPT !.revealed_cells = {}]
clear_flagged_cells(gs) == [gs EXCEPT !.flagged_cells = {}]

RECURSIVE chording_scan(_, _, _, _)
chording_scan(b, adj, flagged_adjacent, hidden) ==
    IF adj = <<>> THEN [flagged_adjacent |-> flagged_adjacent, hidden |-> hidden]
    ELSE IF is_flagged(b.cells[Head(adj)])
    THEN chording_scan(b, Tail(adj), flagged_adjacent + 1, hidden)
    ELSE IF is_hidden(b.cells[Head(adj)])
    THEN chording_scan(b, Tail(adj), flagged_adjacent, Append(hidden, Head(adj)))
    ELSE chording_scan(b, Tail(adj), flagged_adjacent, hidden)

RECURSIVE chording_loop(_, _, _, _, _)
chording_loop(gs, hidden, game_over, end_cell, revealed) ==
    IF hidden = <<>>
    THEN { Out(gs, IF game_over THEN GameOver(end_cell)
                   ELSE IF revealed THEN Continue ELSE CantReveal) }
    ELSE UNION { CASE IsErr(r.res) -> { r }
                   [] r.res.kind = "GameOver" ->
                        chording_loop(r.gs, Tail(hidden), TRUE, r.res.pos, revealed)
                   [] r.res.kind = "Continue" ->
                        chording_loop(r.gs, Tail(hidden), game_over, end_cell, TRUE)
                   [] r.res.kind = "CantReveal" ->
                        chording_loop(r.gs, Tail(hidden), game_over, end_cell, revealed) :
                 r \in reveal_cell(gs, Head(hidden)) }

\* chording refusing only when too few neighbours are flagged.
chording_at_least(gs, pos) ==
    IF is_over(gs.status) THEN { Out(gs, CantReveal) }
    ELSE IF ~ validate_position(gs.board, pos) THEN { Out(gs, InvalidCellPosition(pos)) }
    ELSE IF is_hidden(gs.board.cells[pos]) \/ is_flagged(gs.board.cells[pos])
    THEN { Out(gs, CantReveal) }
    ELSE LET s == chording_scan(gs.board, adjacent_positions(gs.board, pos), 0, <<>>)
         IN  IF s.flagged_adjacent < as_number(gs.board.cells[pos].content)
             THEN { Out(gs, CantReveal) }
             ELSE chording_loop(gs, s.hidden, FALSE, <<0, 0>>, FALSE)

\* chording reporting its own target as the mine that ended the game.
chording_reporting_target(gs, pos) ==
    IF is_over(gs.status) THEN { Out(gs, CantReveal) }
    ELSE IF ~ validate_position(gs.board, pos) THEN { Out(gs, InvalidCellPosition(pos)) }
    ELSE IF is_hidden(gs.board.cells[pos]) \/ is_flagged(gs.board.cells[pos])
    THEN { Out(gs, CantReveal) }
    ELSE LET s == chording_scan(gs.board, adjacent_positions(gs.board, pos), 0, <<>>)
         IN  IF s.flagged_adjacent # as_number(gs.board.cells[pos].content)
             THEN { Out(gs, CantReveal) }
             ELSE { IF r.res.kind = "GameOver" THEN Out(r.gs, GameOver(pos)) ELSE r :
                       r \in chording_loop(gs, s.hidden, FALSE, <<0, 0>>, FALSE) }

\* chording without the test of the state of its target.
chording_on_any_target(gs, pos) ==
    IF is_over(gs.status) THEN { Out(gs, CantReveal) }
    ELSE IF ~ validate_position(gs.board, pos) THEN { Out(gs, InvalidCellPosition(pos)) }
    ELSE LET s == chording_scan(gs.board, adjacent_positions(gs.board, pos), 0, <<>>)
         IN  IF s.flagged_adjacent # as_number(gs.board.cells[pos].content)
             THEN { Out(gs, CantReveal) }
             ELSE chording_loop(gs, s.hidden, FALSE, <<0, 0>>, FALSE)

\* chording without the test of the status.
chording_ignoring_status(gs, pos) ==
    IF ~ validate_position(gs.board, pos) THEN { Out(gs, InvalidCellPosition(pos)) }
    ELSE IF is_hidden(gs.board.cells[pos]) \/ is_flagged(gs.board.cells[pos])
    THEN { Out(gs, CantReveal) }
    ELSE LET s == chording_scan(gs.board, adjacent_positions(gs.board, pos), 0, <<>>)
         IN  IF s.flagged_adjacent # as_number(gs.board.cells[pos].content)
             THEN { Out(gs, CantReveal) }
             ELSE chording_loop(gs, s.hidden, FALSE, <<0, 0>>, FALSE)

chording(gs, pos) ==
    IF is_over(gs.status) THEN { Out(gs, CantReveal) }
    ELSE IF ~ validate_position(gs.board, pos) THEN { Out(gs, InvalidCellPosition(pos)) }
    ELSE IF is_hidden(gs.board.cells[pos]) \/ is_flagged(gs.board.cells[pos])
    THEN { Out(gs, CantReveal) }
    ELSE LET s == chording_scan(gs.board, adjacent_positions(gs.board, pos), 0, <<>>)
         IN  IF s.flagged_adjacent # as_number(gs.board.cells[pos].content)
             THEN { Out(gs, CantReveal) }
             ELSE chording_loop(gs, s.hidden, FALSE, <<0, 0>>, FALSE)

-----------------------------------------------------------------------------
(* The commands of GameState as actions. *)

FlaggedOnBoard(b) == { p \in DOMAIN b.cells : is_flagged(b.cells[p]) }

InitWith(ds) ==
    /\ pc = "idle"
    /\ \E d \in ds : \E gs \in GameState_new(d) :
         /\ board = gs.board
         /\ difficulty = gs.difficulty
         /\ status = gs.status
         /\ start_time = gs.start_time
         /\ elapsed_seconds = gs.elapsed_seconds
         /\ revealed_cells = gs.revealed_cells
         /\ flagged_cells = gs.flagged_cells
         /\ custom_flags_remaining = gs.custom_flags_remaining

\* A command that returns leaves pc idle; a failed expect ends the program.
Return(r) ==
    /\ SetGS(r.gs)
    /\ pc' = IF r.res = Panic THEN "panicked" ELSE "idle"

\* A command whose mine placement never ends keeps the thread in place_mines.
NoReturn ==
    /\ pc' = "place_mines"
    /\ start_time' = "Some"
    /\ UNCHANGED <<board, difficulty, status, elapsed_seconds, revealed_cells,
                   flagged_cells, custom_flags_remaining>>

RevealCell(pos) ==
    /\ pc = "idle"
    /\ IF reveal_cell(GS, pos) = {} THEN NoReturn
       ELSE \E r \in reveal_cell(GS, pos) : Return(r)

ToggleFlag(pos) ==
    /\ pc = "idle"
    /\ LET r == toggle_flag(GS, pos)
       IN  /\ Cardinality(FlaggedOnBoard(r.gs.board)) <= MaxFlags
           /\ Return(r)

Chording(pos) ==
    /\ pc = "idle"
    /\ IF chording(GS, pos) = {} THEN NoReturn
       ELSE \E r \in chording(GS, pos) : Return(r)

Tick ==
    /\ pc = "idle"
    /\ \E reading \in 1..MaxTime :
         /\ reading >= elapsed_seconds
         /\ SetGS(tick(GS, reading))
    /\ pc' = pc

Restart ==
    /\ pc = "idle"
    /\ \E r \in restart(GS) : Return(r)

ChangeDifficulty(d) ==
    /\ pc = "idle"
    /\ \E r \in change_difficulty(GS, d) : Return(r)

ClearRevealedCells ==
    /\ pc = "idle"
    /\ SetGS(clear_revealed_cells(GS))
    /\ pc' = pc

ClearFlaggedCells ==
    /\ pc = "idle"
    /\ SetGS(clear_flagged_cells(GS))
    /\ pc' = pc

\* The whole engine on the small boards.
Init == InitWith(Difficulties)

Next ==
    \/ \E pos \in Positions(board.size) : RevealCell(pos)
    \/ \E pos \in Positions(board.size) : ToggleFlag(pos)
    \/ \E pos \in Positions(board.size) : Chording(pos)
    \/ Tick
    \/ Restart
    \/ \E d \in Difficulties : ChangeDifficulty(d)
    \/ ClearRevealedCells
    \/ ClearFlaggedCells

Spec == Init /\ [][Next]_vars

\* The board commands on the larger boards: the clock and the drain of
\* revealed_cells, which touch neither the board nor the status, are left out.
InitPlay == InitWith(PlayDifficulties)

NextPlay ==
    \/ \E pos \in Positions(board.size) : RevealCell(pos)
    \/ \E pos \in Positions(board.size) : ToggleFlag(pos)
    \/ \E pos \in Positions(board.size) : Chording(pos)
    \/ Restart
    \/ \E d \in PlayDifficulties : ChangeDifficulty(d)
    \/ ClearFlaggedCells

SpecPlay == InitPlay /\ [][NextPlay]_vars

\* A game on the clock: the readings reach beyond the limit of the display.
TickClock ==
    /\ pc = "idle"
    /\ \E reading \in ClockReadings :
         /\ reading >= elapsed_seconds
         /\ SetGS(tick(GS, reading))
    /\ pc' = pc

InitClock == InitWith(ClockDifficulties)

NextClock ==
    \/ \E pos \in Positions(board.size) : RevealCell(pos)
    \/ \E pos \in Positions(board.size) : ToggleFlag(pos)
    \/ TickClock
    \/ Restart

SpecClock == InitClock /\ [][NextClock]_vars

\* The board_size the grid of buttons hands to from_index and to_index: the
\* number of rows.
index_board_size(d) == d.board_size[2]

\* A click on the button with the given index.
handle_reveal(index) ==
    RevealCell(from_index(index, index_board_size(difficulty)))

InitGeom == InitWith(GeomDifficulties)

NextGeom ==
    \/ \E index \in 0..(difficulty.board_size[1] * difficulty.board_size[2] - 1) :
          handle_reveal(index)
    \/ Restart

SpecGeom == InitGeom /\ [][NextGeom]_vars

\* The commands a caller can misuse: positions beyond the board and
\* difficulties that are not valid.
InitErr == InitWith({ d \in ErrDifficulties : validate_difficulty(d) })

NextErr ==
    \/ \E pos \in InputPositions(board.size) : RevealCell(pos)
    \/ \E pos \in InputPositions(board.size) : ToggleFlag(pos)
    \/ \E pos \in InputPositions(board.size) : Chording(pos)
    \/ Restart
    \/ \E d \in ErrDifficulties : ChangeDifficulty(d)

SpecErr == InitErr /\ [][NextErr]_vars

-----------------------------------------------------------------------------
(* Properties.  A property of the form "whenever command c is called in a     *)
(* state where P holds, Q holds of what it returns and leaves" is stated over *)
(* every reachable state in which P holds and every outcome of c there.       *)

Pos == Positions(board.size)

Abs(n) == IF n < 0 THEN -n ELSE n

\* The 8-neighbourhood, stated without the offsets table.
Nbrs(size, p) ==
    { q \in Positions(size) : q # p /\ Abs(q[1] - p[1]) <= 1 /\ Abs(q[2] - p[2]) <= 1 }

Returned(outs) == { r \in outs : r.res # Panic }

StateAt(gs, p) == gs.board.cells[p].state
ContentAt(gs, p) == gs.board.cells[p].content
MinesOf(gs) == gs.board.mine_positions
SafeCells(gs) ==
    gs.difficulty.board_size[1] * gs.difficulty.board_size[2] - gs.difficulty.mines_count

\* C1: the first reveal_cell of a game (status New) on a hidden, unflagged cell
\* never returns GameOver; the cell is not a mine afterwards and status is
\* InProgress or Won.
C1_FirstRevealNeverLoses ==
    \A p \in Pos :
        (is_new(status) /\ is_hidden(board.cells[p])) =>
            \A r \in Returned(reveal_cell(GS, p)) :
                /\ r.res.kind = "Continue"
                /\ p \notin MinesOf(r.gs)
                /\ ~ is_mine(r.gs.board.cells[p])
                /\ r.gs.status \in {"InProgress", "Won"}

\* A first reveal has just been made: one cell revealed, the clock started and
\* not yet read.
C1_Witness ==
    /\ status = "InProgress"
    /\ board.revealed_count = 1
    /\ start_time = "Some"
    /\ elapsed_seconds = 0

MinesWellFormed ==
    /\ Cardinality(board.mine_positions) = difficulty.mines_count
    /\ board.mine_positions \subseteq Positions(difficulty.board_size)
    /\ \A p \in Pos :
          IF p \in board.mine_positions
          THEN board.cells[p].content = "Mine"
          ELSE /\ board.cells[p].content # "Mine"
               /\ as_number(board.cells[p].content)
                     = Cardinality(Nbrs(board.size, p) \cap board.mine_positions)

ContentsOf(b) == [p \in DOMAIN b.cells |-> b.cells[p].content]

\* C2: once mines are placed (status InProgress, Won or Lost) the mine set has
\* exactly mines_count in-bounds positions, each with content Mine, every other
\* cell's count is the number of its neighbours that are mines, and no step
\* other than one back to New changes the mine set or a content.
C2_MinesAndCounts ==
    /\ [](status \in {"InProgress", "Won", "Lost"} => MinesWellFormed)
    /\ [][(status \in {"InProgress", "Won", "Lost"} /\ status' # "New") =>
             /\ board'.mine_positions = board.mine_positions
             /\ ContentsOf(board') = ContentsOf(board)]_vars

\* A started game with two mines next to each other.
C2_Witness ==
    /\ status = "InProgress"
    /\ board.revealed_count >= 1
    /\ \E p \in board.mine_positions :
          Nbrs(board.size, p) \cap board.mine_positions # {}

\* C3: a cell flagged while status is New is not a mine after the placement the
\* first reveal_cell triggers.
C3_PreFlaggedNeverMine ==
    \A p \in Pos :
        (is_new(status) /\ is_hidden(board.cells[p])) =>
            \A r \in Returned(reveal_cell(GS, p)) :
                \A q \in Pos :
                    is_flagged(board.cells[q]) => q \notin MinesOf(r.gs)

\* The states in which reveal_cell(p) begins its flood fill: the state itself,
\* or what start_game leaves when status is New.
Started(p) ==
    IF is_new(status) THEN { s.gs : s \in { t \in start_game(GS, p) : t.res = Ok } }
    ELSE { GS }

MineCount(gs, p) == Cardinality(Nbrs(gs.board.size, p) \cap MinesOf(gs))

\* The cells a flood fill from the cells of S reaches: it grows through cells
\* without a mined neighbour into their Hidden neighbours.
RECURSIVE FloodRegion(_, _)
FloodRegion(gs, S) ==
    LET T == S \cup { n \in Positions(gs.board.size) :
                        /\ StateAt(gs, n) = "Hidden"
                        /\ \E c \in S : /\ MineCount(gs, c) = 0
                                        /\ n \in Nbrs(gs.board.size, c) }
    IN  IF T = S THEN S ELSE FloodRegion(gs, T)

NewlyRevealed(before, after) ==
    { q \in Positions(before.board.size) :
         StateAt(after, q) = "Revealed" /\ StateAt(before, q) # "Revealed" }

\* C4: reveal_cell on a hidden cell that is not a mine reveals exactly the
\* region of zero-count cells connected to it through Hidden cells plus that
\* region's border, and nothing else; revealed_count grows by the number of
\* cells revealed; on a cell with a count above zero only that cell.
C4_FloodFillExact ==
    \A p \in Pos : \A g \in Started(p) :
        (StateAt(GS, p) = "Hidden" /\ StateAt(g, p) = "Hidden" /\ p \notin MinesOf(g)) =>
            LET r == reveal_cell_started(g, p)
                R == FloodRegion(g, {p})
            IN  /\ r \in reveal_cell(GS, p)
                /\ r.res = Continue
                /\ NewlyRevealed(g, r.gs) = R
                /\ \A q \in Pos \ R :
                      \/ StateAt(r.gs, q) = StateAt(g, q)
                      \/ /\ q \in MinesOf(g)
                         /\ r.gs.status = "Won"
                         /\ StateAt(g, q) = "Hidden"
                         /\ StateAt(r.gs, q) = "Flagged"
                /\ r.gs.board.revealed_count = g.board.revealed_count + Cardinality(R)
                /\ R \subseteq r.gs.revealed_cells
                /\ (MineCount(g, p) > 0 => NewlyRevealed(g, r.gs) = {p})

\* A flood fill has gone around a flagged cell: a revealed zero-count cell with
\* a Flagged neighbour and a revealed numbered neighbour.
C4_Witness ==
    /\ status = "InProgress"
    /\ \E c \in Pos :
          /\ StateAt(GS, c) = "Revealed"
          /\ c \notin MinesOf(GS)
          /\ MineCount(GS, c) = 0
          /\ \E n \in Nbrs(board.size, c) : StateAt(GS, n) = "Flagged"
          /\ \E n \in Nbrs(board.size, c) :
                StateAt(GS, n) = "Revealed" /\ MineCount(GS, n) > 0

RevealOrChord(p) == Returned(reveal_cell(GS, p)) \cup Returned(chording(GS, p))

\* C5: a reveal_cell or chording that reveals no mine and brings revealed_count
\* to width*height - mines_count leaves status Won, every mine Flagged and in
\* flagged_cells; and status is never Won while a non-mine cell is unrevealed.
C5_WinFlagsEveryMine ==
    /\ \A p \in Pos :
          (status \in {"New", "InProgress"}) =>
              \A r \in RevealOrChord(p) :
                  (r.gs.status # "Lost" /\ r.gs.board.revealed_count = SafeCells(r.gs)) =>
                      /\ r.gs.status = "Won"
                      /\ \A m \in MinesOf(r.gs) : StateAt(r.gs, m) = "Flagged"
                      /\ MinesOf(r.gs) \subseteq r.gs.flagged_cells
    /\ status = "Won" =>
          \A q \in Pos \ board.mine_positions : StateAt(GS, q) = "Revealed"

\* A game just won: every mine flagged and recorded in flagged_cells.
C5_Witness ==
    /\ status = "Won"
    /\ board.revealed_count = SafeCells(GS)
    /\ \A m \in board.mine_positions : StateAt(GS, m) = "Flagged"
    /\ board.mine_positions \subseteq flagged_cells
    /\ revealed_cells # {}

\* The mines and cell states a command starts from: those of the board, or of a
\* fresh board when the command is the one that starts the game.
PreStateAt(q) == IF is_new(status) THEN "Hidden" ELSE StateAt(GS, q)

FlaggedNbrs(p) == { n \in Nbrs(board.size, p) : StateAt(GS, n) = "Flagged" }
HiddenNbrs(p) == { n \in Nbrs(board.size, p) : StateAt(GS, n) = "Hidden" }

\* C7: chording on a Revealed cell with count k in a game that is not over
\* reveals every Hidden neighbour when exactly k neighbours are Flagged, and
\* otherwise returns CantReveal and changes nothing.
C7_ChordNeedsExactFlags ==
    \A p \in Pos :
        (~ is_over(status) /\ StateAt(GS, p) = "Revealed") =>
            \A r \in chording(GS, p) :
                IF Cardinality(FlaggedNbrs(p)) = MineCount(GS, p)
                THEN \A n \in HiddenNbrs(p) : StateAt(r.gs, n) = "Revealed"
                ELSE r.res = CantReveal /\ r.gs = GS

\* A chord is about to act: a revealed numbered cell with as many flagged
\* neighbours as its count and a hidden neighbour that the chord reveals.
C7_Witness ==
    \E p \in Pos :
        /\ ~ is_over(status)
        /\ StateAt(GS, p) = "Revealed"
        /\ MineCount(GS, p) > 0
        /\ Cardinality(FlaggedNbrs(p)) = MineCount(GS, p)
        /\ HiddenNbrs(p) # {}
        /\ \E r \in chording(GS, p) : r.res = Continue /\ r.gs.status = "InProgress"

Restarts == restart(GS) \cup UNION { change_difficulty(GS, d) : d \in Difficulties }

\* C8: after restart or a successful change_difficulty status is New, both sets
\* are empty, elapsed_seconds and the display counter are 0, the start instant
\* is unset, every cell is Hidden and both board counters are 0.
C8_RestartResetsAll ==
    \A r \in Restarts :
        r.res = Ok =>
            /\ r.gs.status = "New"
            /\ r.gs.revealed_cells = {}
            /\ r.gs.flagged_cells = {}
            /\ r.gs.elapsed_seconds = 0
            /\ r.gs.start_time = "None"
            /\ r.gs.custom_flags_remaining = 0
            /\ DOMAIN r.gs.board.cells = Positions(r.gs.difficulty.board_size)
            /\ \A q \in DOMAIN r.gs.board.cells : StateAt(r.gs, q) = "Hidden"
            /\ r.gs.board.revealed_count = 0
            /\ r.gs.board.flagged_count = 0

\* A finished game with every field restart has to reset away from its default.
C8_Witness ==
    /\ is_over(status)
    /\ revealed_cells # {}
    /\ flagged_cells # {}
    /\ elapsed_seconds > 0
    /\ custom_flags_remaining > 0
    /\ board.flagged_count > 0
    /\ \E r \in restart(GS) : r.res = Ok

PlayOutcomeStates ==
    UNION { { r.gs : r \in Returned(reveal_cell(GS, p)) }
              \cup { r.gs : r \in Returned(chording(GS, p)) }
              \cup { toggle_flag(GS, p).gs } : p \in Pos }
      \cup { tick(GS, t) : t \in 1..MaxTime }
      \cup { clear_revealed_cells(GS), clear_flagged_cells(GS) }

\* C9: status Won or Lost is kept by reveal_cell, toggle_flag, chording, tick and
\* the two clear commands; a step that leaves it is a restart or a
\* change_difficulty and leads to New.
C9_OverIsTerminal ==
    /\ [](is_over(status) => \A g \in PlayOutcomeStates : g.status = status)
    /\ [][(is_over(status) /\ status' # status) =>
             /\ status' = "New"
             /\ \E r \in Restarts : r.res = Ok /\ SetGS(r.gs)]_vars

\* A lost game in which every cell without a mine has been revealed.
C9_Witness ==
    /\ status = "Lost"
    /\ board.revealed_count = SafeCells(GS)

\* C10: once status is Lost every reveal_cell returns CantReveal and changes
\* no cell state, revealed_count or revealed_cells.
C10_RevealAfterLossRefused ==
    status = "Lost" =>
        \A p \in Pos : \A r \in reveal_cell(GS, p) :
            /\ r.res = CantReveal
            /\ r.gs.board = board
            /\ r.gs.revealed_cells = revealed_cells

\* C11: a successful toggle_flag on a hidden cell while status is New starts the
\* game as a first reveal does: the clock is started and status is InProgress.
C11_FlagStartsGame ==
    \A p \in Pos :
        (is_new(status) /\ is_hidden(board.cells[p])) =>
            LET r == toggle_flag(GS, p)
            IN  r.res = Flagged(TRUE) =>
                    /\ r.gs.status = "InProgress"
                    /\ r.gs.start_time = "Some"

\* C12: reveal_cell on a cell that is Revealed or Flagged returns CantReveal and
\* changes nothing; with status New it leaves status New, the start instant
\* unset, the elapsed time 0 and the board without a new placement.
C12_RefusedRevealNoEffect ==
    \A p \in Pos :
        (pc = "idle" /\ (is_revealed(board.cells[p]) \/ is_flagged(board.cells[p]))) =>
            /\ reveal_cell(GS, p) = { Out(GS, CantReveal) }
            /\ is_new(status) =>
                  \A r \in reveal_cell(GS, p) :
                      /\ r.gs.status = "New"
                      /\ r.gs.start_time = "None"
                      /\ r.gs.elapsed_seconds = 0
                      /\ r.gs.board = board

\* A game not yet started with a flagged cell, on which reveal_cell is refused.
C12_Witness ==
    /\ is_new(status)
    /\ start_time = "None"
    /\ \E p \in Pos :
          /\ is_flagged(board.cells[p])
          /\ \E r \in reveal_cell(GS, p) : r.res = CantReveal

OutOfBounds == InputPositions(board.size) \ Pos

\* C13: in every status, for every position with col >= width or row >= height,
\* reveal_cell, toggle_flag, chording and display_cell return the out-of-bounds
\* error and leave the game state unchanged.
C13_OutOfBoundsIsAnError ==
    pc = "idle" =>
        \A pos \in OutOfBounds :
            /\ reveal_cell(GS, pos) = { Out(GS, InvalidCellPosition(pos)) }
            /\ toggle_flag(GS, pos) = Out(GS, InvalidCellPosition(pos))
            /\ chording(GS, pos) = { Out(GS, InvalidCellPosition(pos)) }
            /\ display_cell(GS, pos) = InvalidCellPosition(pos)

\* The part of C13 that is about games not over.
C13_OutOfBoundsWhileNotOver ==
    (pc = "idle" /\ ~ is_over(status)) =>
        \A pos \in OutOfBounds :
            /\ reveal_cell(GS, pos) = { Out(GS, InvalidCellPosition(pos)) }
            /\ toggle_flag(GS, pos) = Out(GS, InvalidCellPosition(pos))
            /\ chording(GS, pos) = { Out(GS, InvalidCellPosition(pos)) }
            /\ display_cell(GS, pos) = InvalidCellPosition(pos)

\* The difficulties new and change_difficulty are asked for, zero sizes included.
AllDifficulties ==
    { [board_size |-> <<w, h>>, mines_count |-> n] :
         w \in 0..2, h \in 0..2, n \in 0..5 }

ValidDifficulty(d) ==
    /\ d.board_size[1] > 0
    /\ d.board_size[2] > 0
    /\ 0 < d.mines_count
    /\ d.mines_count < d.board_size[1] * d.board_size[2]

\* GameState::new and change_difficulty fail exactly on the invalid difficulties.
DifficultyErrorsExact ==
    /\ \A d \in AllDifficulties : (GameState_new(d) = {}) <=> ~ ValidDifficulty(d)
    /\ pc = "idle" =>
          \A d \in AllDifficulties : \A r \in change_difficulty(GS, d) :
              (r.res = InvalidDifficulty) <=> ~ ValidDifficulty(d)

\* C14: GameState::new(d) and change_difficulty(d) return the InvalidDifficulty
\* error exactly when d is not valid, and no sequence of commands after either
\* outcome reaches the failed expect of start_game.
C14_InvalidDifficultyNeverPanics ==
    /\ DifficultyErrorsExact
    /\ pc # "panicked"

\* tick has been called at least mines_count times since the last restart: the
\* counter it advances from 0 by one per call has reached mines_count.
TickedToCompletion == custom_flags_remaining >= difficulty.mines_count

\* C15: in a state with status Won in which tick has been called at least
\* mines_count times since the last restart, flags_remaining() is 0.
C15_WonShowsZeroFlags ==
    (status = "Won" /\ TickedToCompletion) => flags_remaining(GS) = 0

\* The same state when the player had flagged every mine by hand.
C15_WonAllFlaggedByHand ==
    (status = "Won" /\ TickedToCompletion
        /\ board.flagged_count = difficulty.mines_count) => flags_remaining(GS) = 0

\* What the commands other than tick, restart and change_difficulty can leave.
UntickedOutcomeStates ==
    UNION { { r.gs : r \in reveal_cell(GS, p) }
              \cup { r.gs : r \in chording(GS, p) }
              \cup { toggle_flag(GS, p).gs } : p \in Pos }
      \cup { clear_revealed_cells(GS), clear_flagged_cells(GS) }

\* C16: the display counter is 0 after construction, restart and
\* change_difficulty, grows by exactly one per tick up to mines_count, is left
\* alone by every other command and falls only by a restart; flags_remaining()
\* is the counter while it is below mines_count, whatever is flagged, and
\* mines_count - flagged_count once it has reached mines_count.
C16_CounterFollowsTicks ==
    /\ [](pc = "idle" =>
            /\ custom_flags_remaining \in 0..difficulty.mines_count
            /\ \A g \in GameState_new(difficulty) : g.custom_flags_remaining = 0
            /\ \A r \in Restarts : r.res = Ok => r.gs.custom_flags_remaining = 0
            /\ \A t \in 1..MaxTime :
                  tick(GS, t).custom_flags_remaining =
                      IF custom_flags_remaining < difficulty.mines_count
                      THEN custom_flags_remaining + 1
                      ELSE difficulty.mines_count
            /\ \A g \in UntickedOutcomeStates :
                  g.custom_flags_remaining = custom_flags_remaining
            /\ flags_remaining(GS) =
                  IF custom_flags_remaining < difficulty.mines_count
                  THEN custom_flags_remaining
                  ELSE difficulty.mines_count - board.flagged_count)
    /\ [][custom_flags_remaining' # custom_flags_remaining =>
             \/ custom_flags_remaining' = custom_flags_remaining + 1
             \/ custom_flags_remaining' = 0 /\ status' = "New"]_vars

\* One tick into a game with two mines and a flag placed: the display shows the
\* number of ticks, not mines_count - flagged_count.
C16_Witness ==
    /\ pc = "idle"
    /\ difficulty.mines_count = 2
    /\ custom_flags_remaining = 1
    /\ elapsed_seconds > 0
    /\ board.flagged_count = 2
    /\ flags_remaining(GS) = 1

\* A GameState, and a set of outcomes, without the two fields tick writes.
Unticked(gs) == [gs EXCEPT !.elapsed_seconds = 0, !.custom_flags_remaining = 0]
UntickedOuts(outs) == { Out(Unticked(r.gs), r.res) : r \in outs }

\* C17: tick changes only elapsed_seconds and the display counter, and what
\* reveal_cell, toggle_flag and chording return and leave afterwards is what
\* they return and leave without the tick.
C17_TickChangesClockOnly ==
    pc = "idle" =>
        \A t \in 1..MaxTime :
            LET g == tick(GS, t)
            IN  /\ Unticked(g) = Unticked(GS)
                /\ \A p \in Pos :
                      /\ UntickedOuts(reveal_cell(g, p)) = UntickedOuts(reveal_cell(GS, p))
                      /\ UntickedOuts(chording(g, p)) = UntickedOuts(chording(GS, p))
                      /\ UntickedOuts({ toggle_flag(g, p) })
                            = UntickedOuts({ toggle_flag(GS, p) })

\* A running game that has been ticked, with a flag, a revealed cell waiting to
\* be repainted and a cell left to reveal.
C17_Witness ==
    /\ pc = "idle"
    /\ status = "InProgress"
    /\ elapsed_seconds > 0
    /\ custom_flags_remaining > 0
    /\ revealed_cells # {}
    /\ board.flagged_count > 0
    /\ \E p \in Pos : is_hidden(board.cells[p])
    /\ \E t \in 1..MaxTime : tick(GS, t) # GS

\* C18: toggle_flag on an in-bounds position returns true exactly when the game
\* is not over and the cell is Hidden or Flagged; the cell then flips between
\* Hidden and Flagged, flagged_count moves by one and the position enters or
\* leaves flagged_cells; otherwise it returns false and changes nothing.
C18_ToggleFlagFlips ==
    pc = "idle" =>
        \A p \in Pos :
            LET r == toggle_flag(GS, p)
            IN  IF ~ is_over(status) /\ StateAt(GS, p) = "Hidden"
                THEN /\ r.res = Flagged(TRUE)
                     /\ r.gs = [GS EXCEPT !.board.cells[p].state = "Flagged",
                                          !.board.flagged_count = @ + 1,
                                          !.flagged_cells = @ \cup {p}]
                ELSE IF ~ is_over(status) /\ StateAt(GS, p) = "Flagged"
                THEN /\ r.res = Flagged(TRUE)
                     /\ r.gs = [GS EXCEPT !.board.cells[p].state = "Hidden",
                                          !.board.flagged_count = @ - 1,
                                          !.flagged_cells = @ \ {p}]
                ELSE r.res = Flagged(FALSE) /\ r.gs = GS

\* A running game with a cell to unflag, a cell to flag and a revealed cell.
C18_Witness ==
    /\ pc = "idle"
    /\ status = "InProgress"
    /\ \E p \in Pos : StateAt(GS, p) = "Flagged" /\ toggle_flag(GS, p).res = Flagged(TRUE)
    /\ \E p \in Pos : StateAt(GS, p) = "Hidden" /\ toggle_flag(GS, p).res = Flagged(TRUE)
    /\ \E p \in Pos : StateAt(GS, p) = "Revealed" /\ toggle_flag(GS, p).res = Flagged(FALSE)

\* The cells a command that leaves gs has taken from Hidden to Revealed.
HiddenToRevealed(gs) ==
    { q \in Pos : PreStateAt(q) = "Hidden" /\ StateAt(gs, q) = "Revealed" }

\* C19: when revealed_cells is empty before a reveal_cell or chording, after it
\* revealed_cells is exactly the set of cells the command took from Hidden to
\* Revealed, and holds no cell that is still Hidden or Flagged.
C19_RevealedCellsAreNewlyRevealed ==
    (pc = "idle" /\ revealed_cells = {}) =>
        \A p \in Pos : \A r \in RevealOrChord(p) :
            /\ r.gs.revealed_cells = HiddenToRevealed(r.gs)
            /\ \A q \in r.gs.revealed_cells : StateAt(r.gs, q) = "Revealed"

\* What revealed_cells is instead: the newly revealed cells and, after a loss,
\* the mines that stay Flagged.
C19_ExceptFlaggedMinesOnLoss ==
    (pc = "idle" /\ revealed_cells = {}) =>
        \A p \in Pos : \A r \in RevealOrChord(p) :
            r.gs.revealed_cells =
                HiddenToRevealed(r.gs)
                    \cup (IF r.gs.status = "Lost" /\ status # "Lost"
                          THEN { m \in MinesOf(r.gs) : StateAt(r.gs, m) = "Flagged" }
                          ELSE {})

\* C20: reveal_cell, toggle_flag, chording and tick only add positions to
\* revealed_cells; a step that removes one is clear_revealed_cells, restart or
\* change_difficulty.
C20_RevealedCellsOnlyGrow ==
    /\ [](pc = "idle" =>
            /\ \A p \in Pos :
                  /\ \A r \in reveal_cell(GS, p) : revealed_cells \subseteq r.gs.revealed_cells
                  /\ \A r \in chording(GS, p) : revealed_cells \subseteq r.gs.revealed_cells
                  /\ revealed_cells \subseteq toggle_flag(GS, p).gs.revealed_cells
            /\ \A t \in 1..MaxTime : revealed_cells \subseteq tick(GS, t).revealed_cells)
    /\ [][~ (revealed_cells \subseteq revealed_cells') =>
             /\ revealed_cells' = {}
             /\ \/ SetGS(clear_revealed_cells(GS))
                \/ \E r \in Restarts : r.res = Ok /\ SetGS(r.gs)]_vars

\* A game just lost with cells revealed by earlier commands still in
\* revealed_cells, next to the mines the loss added.
C20_Witness ==
    /\ pc = "idle"
    /\ status = "Lost"
    /\ \E q \in revealed_cells : q \notin board.mine_positions
    /\ board.mine_positions \subseteq revealed_cells
    /\ \E p \in Pos : \E r \in reveal_cell(GS, p) :
          r.res = Continue /\ revealed_cells \subseteq r.gs.revealed_cells
                           /\ r.gs.revealed_cells # revealed_cells

\* The hidden neighbours of p in the order chording visits them.
HiddenNbrSeq(p) ==
    SelectSeq(adjacent_positions(board, p), LAMBDA n : StateAt(GS, n) = "Hidden")

\* C21: a chording whose flag count matches returns GameOver(m) when a reveal of
\* a neighbour hit a mine, m being the neighbour that was triggered; otherwise
\* Continue when a neighbour was newly revealed; otherwise CantReveal.
C21_ChordingResult ==
    \A p \in Pos :
        (pc = "idle" /\ ~ is_over(status) /\ StateAt(GS, p) = "Revealed"
            /\ Cardinality(FlaggedNbrs(p)) = MineCount(GS, p)) =>
            \A r \in chording(GS, p) :
                LET hit == { n \in HiddenNbrs(p) :
                               n \in MinesOf(GS) /\ StateAt(r.gs, n) = "Revealed" }
                    new == { n \in HiddenNbrs(p) : StateAt(r.gs, n) = "Revealed" }
                    minesInOrder == SelectSeq(HiddenNbrSeq(p),
                                              LAMBDA n : n \in MinesOf(GS))
                IN  IF hit # {}
                    THEN /\ r.res.kind = "GameOver"
                         /\ r.res.pos \in hit
                         /\ r.res.pos = Head(minesInOrder)
                         /\ r.gs.status = "Lost"
                    ELSE IF new # {} THEN r.res = Continue
                    ELSE r.res = CantReveal

\* A chord is about to lose the game: the flag count matches, but a flag sits on
\* a cell without a mine and a mine is among the hidden neighbours.
C21_Witness ==
    \E p \in Pos :
        /\ pc = "idle"
        /\ status = "InProgress"
        /\ StateAt(GS, p) = "Revealed"
        /\ Cardinality(FlaggedNbrs(p)) = MineCount(GS, p)
        /\ HiddenNbrs(p) \cap MinesOf(GS) # {}
        /\ \E r \in chording(GS, p) : r.res.kind = "GameOver" /\ r.res.pos # p

Digits == << "1", "2", "3", "4", "5", "6", "7", "8" >>
CountNames == << "One", "Two", "Three", "Four", "Five", "Six", "Seven", "Eight" >>

\* What the contract has display_cell return for the cell at p.
Shown(p) ==
    CASE StateAt(GS, p) = "Hidden"  -> ""
      [] StateAt(GS, p) = "Flagged" -> FlagGlyph
      [] OTHER ->
           IF p \in MinesOf(GS) THEN BombGlyph
           ELSE IF MineCount(GS, p) = 0 THEN " "
           ELSE Digits[MineCount(GS, p)]

\* C22: display_cell returns the empty string for a Hidden cell, the flag glyph
\* for a Flagged one, the mine glyph for a Revealed mine, a blank for a Revealed
\* cell with count 0 and the digit n for a Revealed cell with count n; a Hidden
\* or Flagged cell shows the same with and without a mine.
C22_DisplayCell ==
    /\ \A p \in Pos :
          /\ display_cell(GS, p) = Text(Shown(p))
          /\ ~ is_revealed(board.cells[p]) =>
                display_cell([GS EXCEPT !.board.cells[p].content = "Mine"], p)
                    = display_cell([GS EXCEPT !.board.cells[p].content = "Empty"], p)
    /\ \A n \in 1..8 :
          Cell_to_string([content |-> CountNames[n], state |-> "Revealed"]) = Digits[n]

\* A lost game showing a revealed mine, a flag on the other mine and a digit.
C22_Witness ==
    /\ status = "Lost"
    /\ \E p \in Pos : display_cell(GS, p) = Text(BombGlyph)
    /\ \E p \in Pos : display_cell(GS, p) = Text(FlagGlyph) /\ p \in MinesOf(GS)
    /\ \E p \in Pos : display_cell(GS, p) = Text("2")

Min(a, b) == IF a < b THEN a ELSE b

\* What holds of elapsed_seconds between commands: the value shown is the
\* smaller of it and 999, it is 0 in New, tick leaves it alone unless status is
\* InProgress and no other game command writes it.
ElapsedBetweenCommands ==
    pc = "idle" =>
        /\ elapsed_seconds_shown(GS) = Min(elapsed_seconds, 999)
        /\ elapsed_seconds_shown(GS) <= 999
        /\ is_new(status) => elapsed_seconds = 0
        /\ ~ is_in_progress(status) =>
              \A t \in ClockReadings : tick(GS, t).elapsed_seconds = elapsed_seconds
        /\ \A g \in UntickedOutcomeStates : g.elapsed_seconds = elapsed_seconds

TickStep ==
    /\ is_in_progress(status)
    /\ \E t \in ClockReadings : SetGS(tick(GS, t))

\* C23 as stated: elapsed_seconds changes only in tick and only while status is
\* InProgress, and elapsed_seconds() returns min(elapsed_seconds, 999).
C23_ElapsedChangesOnlyInTick ==
    /\ []ElapsedBetweenCommands
    /\ [][elapsed_seconds' # elapsed_seconds => TickStep]_vars

\* C23, amended: elapsed_seconds changes only in tick while status is
\* InProgress or is set back to 0 by restart and change_difficulty, and
\* elapsed_seconds() returns min(elapsed_seconds, 999).
C23_ElapsedChangesInTickOrReset ==
    /\ []ElapsedBetweenCommands
    /\ [][elapsed_seconds' # elapsed_seconds =>
             \/ TickStep
             \/ /\ elapsed_seconds' = 0
                /\ status' = "New"
                /\ \E r \in restart(GS) : r.res = Ok /\ SetGS(r.gs)]_vars

\* A finished game whose clock stopped beyond the limit of the display.
C23_Witness ==
    /\ pc = "idle"
    /\ is_over(status)
    /\ elapsed_seconds = 1000
    /\ elapsed_seconds_shown(GS) = 999
    /\ \A t \in ClockReadings : tick(GS, t).elapsed_seconds = elapsed_seconds

\* Each cell that is Flagged stays Flagged in every outcome of reveal_cell,
\* chording, tick and the two clear commands, and a toggle_flag takes the flag
\* off its own target only.
FlaggedStaysFlagged ==
    \A q \in Pos : StateAt(GS, q) = "Flagged" =>
        /\ \A g \in UNION { { r.gs : r \in RevealOrChord(p) } : p \in Pos }
                      \cup { tick(GS, t) : t \in 1..MaxTime }
                      \cup { clear_revealed_cells(GS), clear_flagged_cells(GS) } :
              StateAt(g, q) = "Flagged"
        /\ \A p \in Pos \ {q} : StateAt(toggle_flag(GS, p).gs, q) = "Flagged"
        /\ LET r == toggle_flag(GS, q)
           IN  StateAt(r.gs, q) # "Flagged" =>
                   r.res = Flagged(TRUE) /\ StateAt(r.gs, q) = "Hidden"

\* C24: a Flagged cell is never Revealed by a command and stops being Flagged
\* only by a successful toggle_flag on it (or a restart or change_difficulty).
C24_FlaggedLeavesOnlyByToggle ==
    pc = "idle" => FlaggedStaysFlagged

\* The same once the game has started: the first reveal_cell is the one command
\* that takes flags off the board.
C24_FlaggedKeptOnceStarted ==
    (pc = "idle" /\ ~ is_new(status)) => FlaggedStaysFlagged

RevealedAt(gs) == { q \in DOMAIN gs.board.cells : StateAt(gs, q) = "Revealed" }

\* C25: a Revealed cell is Revealed after every reveal_cell, toggle_flag,
\* chording and tick (and after the two clear commands); the commands that take
\* a cell out of Revealed are restart and change_difficulty, which leave every
\* cell Hidden.
C25_RevealedStaysRevealed ==
    pc = "idle" =>
        /\ \A p \in Pos :
              /\ \A r \in RevealOrChord(p) : RevealedAt(GS) \subseteq RevealedAt(r.gs)
              /\ RevealedAt(GS) \subseteq RevealedAt(toggle_flag(GS, p).gs)
        /\ \A t \in 1..MaxTime : RevealedAt(GS) \subseteq RevealedAt(tick(GS, t))
        /\ RevealedAt(GS) \subseteq RevealedAt(clear_revealed_cells(GS))
        /\ RevealedAt(GS) \subseteq RevealedAt(clear_flagged_cells(GS))
        /\ \A r \in Restarts : r.res = Ok =>
              \A q \in DOMAIN r.gs.board.cells : StateAt(r.gs, q) = "Hidden"

\* A game in progress with a Revealed cell on which toggle_flag and reveal_cell
\* are refused and whose chording reveals a further cell.
C25_Witness ==
    /\ pc = "idle"
    /\ is_in_progress(status)
    /\ \E p \in RevealedAt(GS) :
         /\ toggle_flag(GS, p).res = Flagged(FALSE)
         /\ \A r \in reveal_cell(GS, p) : r.res = CantReveal
         /\ \E r \in chording(GS, p) : RevealedAt(GS) # RevealedAt(r.gs)

Mirrors(gs) == gs.flagged_cells = FlaggedOnBoard(gs.board)

\* The states the commands other than clear_flagged_cells and reveal_cell can
\* leave.
OutcomesButReveal ==
    UNION { { r.gs : r \in chording(GS, p) } \cup { toggle_flag(GS, p).gs } : p \in Pos }
      \cup { tick(GS, t) : t \in 1..MaxTime }
      \cup { clear_revealed_cells(GS) }
      \cup { r.gs : r \in Restarts }

\* C26: flagged_cells is the set of the Flagged cells of the board after
\* construction and, when it is so before a command other than
\* clear_flagged_cells, after the command: in every state reached without
\* clear_flagged_cells since the last restart.
C26_FlaggedCellsMirrorBoard ==
    /\ \A g \in GameState_new(difficulty) : Mirrors(g)
    /\ (pc = "idle" /\ Mirrors(GS)) =>
          /\ \A g \in OutcomesButReveal : Mirrors(g)
          /\ \A p \in Pos : \A r \in reveal_cell(GS, p) : Mirrors(r.gs)

\* The same with the reveal_cell that starts the game set apart: it keeps the
\* two equal when nothing was flagged before it.
C26_MirrorExceptFirstReveal ==
    /\ \A g \in GameState_new(difficulty) : Mirrors(g)
    /\ (pc = "idle" /\ Mirrors(GS)) =>
          /\ \A g \in OutcomesButReveal : Mirrors(g)
          /\ (~ is_new(status) \/ flagged_cells = {}) =>
                \A p \in Pos : \A r \in reveal_cell(GS, p) : Mirrors(r.gs)

C28_FlagHasNoUpperLimit ==
    \A p \in Pos :
        (pc = "idle" /\ ~ is_over(status) /\ StateAt(GS, p) = "Hidden") =>
            LET r == toggle_flag(GS, p)
            IN  /\ r.res = Flagged(TRUE)
                /\ StateAt(r.gs, p) = "Flagged"
                /\ r.gs.board.flagged_count = board.flagged_count + 1
                /\ TickedToCompletion =>
                      /\ flags_remaining(r.gs)
                            = difficulty.mines_count - (board.flagged_count + 1)
                      /\ board.flagged_count >= difficulty.mines_count =>
                            flags_remaining(r.gs) < 0

\* A game in progress with more cells flagged than there are mines and a
\* negative flags_remaining().
C28_Witness ==
    /\ pc = "idle"
    /\ is_in_progress(status)
    /\ board.flagged_count > difficulty.mines_count
    /\ Cardinality(FlaggedOnBoard(board)) = board.flagged_count
    /\ flags_remaining(GS) < 0

Cells == difficulty.board_size[1] * difficulty.board_size[2]

\* C29: on a board of W columns and H rows to_index takes the position (col,
\* row) to col * H + row, from_index and to_index undo each other on the
\* positions of the board and on 0..W*H-1, and to_index is one-to-one from the
\* positions onto 0..W*H-1.
C29_IndexBijection ==
    LET bs == index_board_size(difficulty)
        H  == difficulty.board_size[2]
    IN  /\ \A p \in Pos :
              /\ to_index(p, bs) = p[1] * H + p[2]
              /\ to_index(p, bs) \in 0..(Cells - 1)
              /\ from_index(to_index(p, bs), bs) = p
        /\ \A i \in 0..(Cells - 1) :
              /\ from_index(i, bs) \in Pos
              /\ to_index(from_index(i, bs), bs) = i
        /\ \A p, q \in Pos : to_index(p, bs) = to_index(q, bs) => p = q
        /\ { to_index(p, bs) : p \in Pos } = 0..(Cells - 1)

\* A started game on the board of 3 columns and 2 rows, where the index of a
\* cell differs from the one a count along the rows gives.
C29_Witness ==
    /\ pc = "idle"
    /\ ~ is_new(status)
    /\ board.size = <<3, 2>>
    /\ to_index(<<2, 0>>, index_board_size(difficulty)) = 4
    /\ from_index(3, index_board_size(difficulty)) = <<1, 1>>
    /\ StateAt(GS, from_index(3, index_board_size(difficulty))) = "Revealed"

OnBorder(n, side) == n = 0 \/ n = side - 1

\* C30: adjacent_positions(pos) lists each position of the board other than pos
\* that is at most one column and one row away, once, and none across an edge:
\* 3 positions for a corner, 5 for a cell on an edge and 8 for an interior cell
\* when the board has at least 2 columns and 2 rows.
C30_AdjacentPositions ==
    \A p \in Pos :
        LET adj == adjacent_positions(board, p)
            W   == board.size[1]
            H   == board.size[2]
        IN  /\ { adj[i] : i \in 1..Len(adj) } = Nbrs(board.size, p)
            /\ \A i, j \in 1..Len(adj) : adj[i] = adj[j] => i = j
            /\ (W >= 2 /\ H >= 2) =>
                  Len(adj) = IF OnBorder(p[1], W) /\ OnBorder(p[2], H) THEN 3
                             ELSE IF OnBorder(p[1], W) \/ OnBorder(p[2], H) THEN 5
                             ELSE 8

\* A started game on the board of 3 columns and 3 rows: a corner, an edge cell
\* and the interior cell with 3, 5 and 8 neighbours.
C30_Witness ==
    /\ pc = "idle"
    /\ ~ is_new(status)
    /\ board.size = <<3, 3>>
    /\ Len(adjacent_positions(board, <<0, 0>>)) = 3
    /\ Len(adjacent_positions(board, <<1, 0>>)) = 5
    /\ Len(adjacent_positions(board, <<1, 1>>)) = 8
    /\ \E p \in Pos : StateAt(GS, p) = "Revealed" /\ MineCount(GS, p) = 1

Range(s) == { s[i] : i \in 1..Len(s) }

NoRepeats(s) == \A i, j \in 1..Len(s) : s[i] = s[j] => i = j

\* The game states reveal_area can start from for the start position p: the
\* state between commands or, for the first reveal, what start_game leaves.
FloodStarts(p) ==
    IF is_new(status) /\ StateAt(GS, p) = "Hidden"
    THEN { s.gs : s \in Returned(start_game(GS, p)) }
    ELSE { GS }

\* Every flood fill pops each position at most once, at most width * height
\* positions in all, and the cells it changes are the ones it popped.
FloodFillBounded ==
    \A p \in Pos : \A g \in FloodStarts(p) :
        LET d == reveal_area_dequeued(g, <<p>>, {p})
            r == reveal_area(g, p)
        IN  /\ NoRepeats(d)
            /\ Len(d) <= Cells
            /\ Range(d) \subseteq Pos
            /\ r.res.kind = "Continue" =>
                  { q \in Pos : StateAt(r.gs, q) # StateAt(g, q) } = Range(d)

\* C31: every reveal_cell and chording returns, and the flood fill pops each
\* position of the board at most once, at most width * height in all.
C31_RevealAndChordingTerminate ==
    pc = "idle" =>
        /\ \A p \in Pos : reveal_cell(GS, p) # {} /\ chording(GS, p) # {}
        /\ FloodFillBounded

\* The part that holds: the flood fill is bounded, chording always returns and
\* so does reveal_cell once the game has started.
C31_FloodFillTerminates ==
    pc = "idle" =>
        /\ \A p \in Pos :
              /\ chording(GS, p) # {}
              /\ ~ is_new(status) => reveal_cell(GS, p) # {}
        /\ FloodFillBounded

\* The positions mine placement may use for a first reveal at p.
Eligible(p) == Pos \ ({p} \cup flagged_cells)

\* C32: the first reveal_cell of a game returns whatever cells were flagged
\* before it.
C32_FirstRevealTerminates ==
    (pc = "idle" /\ is_new(status)) =>
        \A p \in Pos : reveal_cell(GS, p) # {}

\* When the first reveal returns: exactly when mines_count positions are left
\* besides the revealed cell and the flagged ones.
C32_ReturnsWhenEnoughEligible ==
    (pc = "idle" /\ is_new(status)) =>
        \A p \in Pos :
            reveal_cell(GS, p) = {}
                <=> /\ StateAt(GS, p) = "Hidden"
                    /\ Cardinality(Eligible(p)) < difficulty.mines_count

\* The outcomes of a reveal_cell that starts the game.
FirstReveals(p) ==
    IF is_new(status) THEN { r \in Returned(reveal_cell(GS, p)) : ~ is_new(r.gs.status) }
    ELSE {}

\* C33: the cells flagged while status is New are Flagged, counted in
\* flagged_count and members of flagged_cells after the first reveal_cell, whose
\* flood fill reveals none of them.
C33_FlagsSurviveFirstReveal ==
    pc = "idle" =>
        \A p \in Pos : \A r \in FirstReveals(p) :
            /\ \A q \in FlaggedOnBoard(board) : StateAt(r.gs, q) = "Flagged"
            /\ r.gs.board.flagged_count = board.flagged_count
            /\ flagged_cells \subseteq r.gs.flagged_cells

\* What the first reveal_cell does instead: flagged_cells is kept and none of
\* its members is a mine, while flagged_count is 0 and no cell of the board is
\* Flagged (but the mines, when the first reveal wins the game).
C33_FirstRevealDropsBoardFlags ==
    pc = "idle" =>
        \A p \in Pos : \A r \in FirstReveals(p) :
            LET won == IF is_won(r.gs.status) THEN MinesOf(r.gs) ELSE {}
            IN  /\ r.gs.flagged_cells = flagged_cells \cup won
                /\ flagged_cells \cap MinesOf(r.gs) = {}
                /\ FlaggedOnBoard(r.gs.board) = won
                /\ r.gs.board.flagged_count = 0

\* The outcomes of a change_difficulty(d) that fails.
FailedChanges(d) == { r \in change_difficulty(GS, d) : r.res = InvalidDifficulty }

\* C34: a change_difficulty that returns the InvalidDifficulty error leaves the
\* GameState as it was: difficulty, board, status, sets and counters.
C34_FailedChangeKeepsState ==
    pc = "idle" =>
        \A d \in AllDifficulties : \A r \in FailedChanges(d) : r.gs = GS

\* What a failed change_difficulty leaves: the state as it was but for the
\* difficulty, which is the refused one.
C34_FailedChangeKeepsAllButDifficulty ==
    pc = "idle" =>
        \A d \in AllDifficulties : \A r \in FailedChanges(d) :
            r.gs = [GS EXCEPT !.difficulty = d]

RevealedSafe(b) == { q \in DOMAIN b.cells : is_revealed(b.cells[q]) /\ ~ is_mine(b.cells[q]) }

\* C35: revealed_count is the number of Revealed cells that are not mines, and
\* neither the reveal of a mine nor reveal_mines changes it.
C35_RevealedCountIsSafeRevealed ==
    /\ board.revealed_count = Cardinality(RevealedSafe(board))
    /\ reveal_mines(board).revealed_count = board.revealed_count
    /\ pc = "idle" =>
          \A p \in Pos :
              /\ p \in MinesOf(GS) =>
                    Board_reveal(board, p).board.revealed_count = board.revealed_count
              /\ \A r \in RevealOrChord(p) :
                    r.gs.board.revealed_count = Cardinality(RevealedSafe(r.gs.board))

\* A lost game: mines are Revealed and revealed_count counts the other Revealed
\* cells only.
C35_Witness ==
    /\ pc = "idle"
    /\ is_lost(status)
    /\ \E m \in MinesOf(GS) : StateAt(GS, m) = "Revealed"
    /\ board.revealed_count > 0
    /\ board.revealed_count < Cardinality(RevealedAt(GS))

\* C36: while status is New, InProgress or Lost, flagged_count is not negative
\* and is the number of Flagged cells.
C36_FlaggedCountIsFlagged ==
    status \in {"New", "InProgress", "Lost"} =>
        /\ board.flagged_count >= 0
        /\ board.flagged_count = Cardinality(FlaggedOnBoard(board))

\* A lost game with a flagged mine left Flagged besides another flag, and the
\* count of both.
C36_Witness ==
    /\ pc = "idle"
    /\ is_lost(status)
    /\ board.flagged_count = 2
    /\ \E m \in MinesOf(GS) : StateAt(GS, m) = "Flagged"
    /\ \E q \in Pos \ MinesOf(GS) : StateAt(GS, q) = "Flagged"

RevealedMines(gs) == { m \in MinesOf(gs) : StateAt(gs, m) = "Revealed" }

\* C37: a mine is Revealed exactly when status is Lost.
C37_MineRevealedIffLost ==
    (RevealedMines(GS) # {}) <=> is_lost(status)

\* A game lost by the reveal of one mine while another mine stays Flagged.
C37_Witness ==
    /\ pc = "idle"
    /\ is_lost(status)
    /\ RevealedMines(GS) # {}
    /\ \E m \in MinesOf(GS) : StateAt(GS, m) = "Flagged"

SafeCount(gs) ==
    gs.difficulty.board_size[1] * gs.difficulty.board_size[2] - gs.difficulty.mines_count

WinDetected(gs) ==
    /\ is_in_progress(gs.status) => gs.board.revealed_count < SafeCount(gs)
    /\ is_won(gs.status) => gs.board.revealed_count = SafeCount(gs)

\* C38: between commands revealed_count is below width * height - mines_count
\* while status is InProgress and equal to it when status is Won; so it is after
\* every reveal_cell and chording, the first reveal of a game included.
C38_WinDetectedAtOnce ==
    /\ WinDetected(GS)
    /\ pc = "idle" =>
          \A p \in Pos : \A r \in Returned(RevealOrChord(p)) : WinDetected(r.gs)

\* A game in progress that a chord wins by revealing the last cells without a
\* mine.
C38_ChordWins ==
    /\ pc = "idle"
    /\ is_in_progress(status)
    /\ board.revealed_count < SafeCount(GS)
    /\ \E p \in Pos : \E r \in chording(GS, p) :
         /\ r.res = Continue
         /\ is_won(r.gs.status)
         /\ r.gs.board.revealed_count = SafeCount(GS)

\* C39: a reveal_cell(pos) that returns GameOver(m) has m = pos, the cell is a
\* mine, and no cell without a mine is Revealed by it.
C39_LosingRevealHitsItsTarget ==
    pc = "idle" =>
        \A p \in Pos : \A r \in reveal_cell(GS, p) :
            r.res.kind = "GameOver" =>
                /\ r.res.pos = p
                /\ p \in MinesOf(r.gs)
                /\ is_lost(r.gs.status)
                /\ RevealedSafe(r.gs.board) = RevealedSafe(board)

\* A game in progress with Revealed and Hidden cells and a Hidden mine whose
\* reveal ends the game.
C39_Witness ==
    /\ pc = "idle"
    /\ is_in_progress(status)
    /\ RevealedSafe(board) # {}
    /\ \E p \in Pos :
         /\ HiddenNbrs(p) # {}
         /\ \E r \in reveal_cell(GS, p) : r.res = GameOver(p)

\* C40: while status is New every cell is Hidden or Flagged, and chording on any
\* position of the board returns CantReveal and leaves the game as it is: status
\* New, the board and its mines, the start instant unset. On a position beyond
\* the board it returns the error and changes nothing either.
C40_ChordingInNewDoesNothing ==
    (pc = "idle" /\ is_new(status)) =>
        /\ start_time = "None"
        /\ \A p \in Pos : StateAt(GS, p) \in {"Hidden", "Flagged"}
        /\ \A p \in Pos : chording(GS, p) = { Out(GS, CantReveal) }
        /\ \A p \in InputPositions(board.size) \ Pos : \A r \in chording(GS, p) : r.gs = GS

\* A new game with a flag placed, in which chording is refused on the Flagged
\* cell and on the Hidden ones, one without an adjacent mine among them.
C40_Witness ==
    /\ pc = "idle"
    /\ is_new(status)
    /\ FlaggedOnBoard(board) # {}
    /\ \E p \in Pos : StateAt(GS, p) = "Hidden" /\ ContentAt(GS, p) = "Empty"
    /\ \A p \in Pos : chording(GS, p) = { Out(GS, CantReveal) }

====
